---- MODULE Spec2Model ----
(***************************************************************************)
(* The host-side game engine of AImongUs (AmongUsManager,                  *)
(* packages/client-fxn/src/wordAileManager.ts) as a state machine: the     *)
(* game state, the timer-driven phase chain, the broadcast/collect step    *)
(* and the resolvers.                                                      *)
(***************************************************************************)
EXTENDS Integers, Sequences, FiniteSets, TLC

(* ------------------------------------------------------------------ *)
(* Program constants                                                  *)
(* ------------------------------------------------------------------ *)
MinSeats == 6
NumRooms == 6
NumImpostors == 2

(* ------------------------------------------------------------------ *)
(* Bounds of the model                                                *)
(* ------------------------------------------------------------------ *)
\* longest participant directory of the timer-driven specifications
MaxSubs == 2
\* longest directory of distinct ids handed to startGame in StartSpec
MaxDirectory == 7
\* currentRound never exceeds MaxRound
MaxRound == 2
\* the random sort of assignRoles rotates the list by at most MaxShift places
MaxShift == 2
\* the bots a reply can name as its target: the first MaxBotTargets of them
MaxBotTargets == 1
\* Math.floor(Math.random() * 6) at assignment lands in 0..MaxStartRoom
MaxStartRoom == 0
\* decisions of a run that differ from the default (a failed call for a
\* real participant, the first outcome of the draw for a bot)
MaxChoices == 2
\* the seats whose flags and decisions vary where the kill step is run alone
MaxKillSeats == 3
\* the greatest room of those seats
MaxKillRoom == 1
\* the seats that move where the movement step is run alone
MaxMoveSeats == 2

(* ------------------------------------------------------------------ *)
(* Values                                                             *)
(* ------------------------------------------------------------------ *)
\* JavaScript's undefined (an absent optional field)
Undef == "undefined"
\* JavaScript's null (a vote that names nobody)
Null == "null"
\* the abstain key of the tally
Skip == "skip"

SubKey(n) == "p" \o ToString(n)
BotKey(n) == "bot-" \o ToString(n)
BotKeys == {BotKey(n) : n \in 1..MinSeats}
\* publicKey.startsWith('bot-')
IsBot(k) == k \in BotKeys

\* a decision payload: PlayerAction, PlayerMovement and PlayerVote share the
\* fields type and target; the free texts are opaque to the host
Decision(t, g) == [type |-> t, target |-> g]
NoDecision == Decision(Undef, Undef)

PlayerState(role, room) ==
    [role |-> role, room |-> room, isAlive |-> TRUE,
     lastAction |-> NoDecision, lastMovement |-> NoDecision, lastVote |-> NoDecision]

\* the empty Map
EmptyMap == [k \in {} |-> NoDecision]

initializeGameState ==
    [players |-> EmptyMap,
     phase |-> "action",
     currentRound |-> 1,
     actionOrder |-> {},
     accusedPlayer |-> Undef,
     votingResults |-> Undef,
     isActive |-> TRUE,
     winner |-> Undef]

Keys(g) == DOMAIN g.players
AliveKeys(g) == {k \in Keys(g) : g.players[k].isAlive}
Impostors(g) == {k \in Keys(g) : g.players[k].role = "impostor"}

(* ------------------------------------------------------------------ *)
(* startGame, assignRoles                                             *)
(* ------------------------------------------------------------------ *)
\* subscribers.filter(sub => sub.status === 'active').map(sub => sub.subscriber.toString())
RECURSIVE ActiveOf(_)
ActiveOf(subs) ==
    IF subs = << >> THEN << >>
    ELSE IF Head(subs).status = "active"
         THEN <<Head(subs).subscriber>> \o ActiveOf(Tail(subs))
         ELSE ActiveOf(Tail(subs))

\* while (activePlayers.length < 6) activePlayers.push(`bot-${activePlayers.length + 1}`)
RECURSIVE PadBots(_)
PadBots(list) ==
    IF Len(list) < MinSeats THEN PadBots(Append(list, BotKey(Len(list) + 1))) ELSE list

\* Map.set of every shuffled entry in turn: a key set twice keeps its last value
RECURSIVE SetAll(_, _, _, _)
SetAll(ps, shuffled, rooms, i) ==
    IF i > Len(shuffled) THEN ps
    ELSE LET k == shuffled[i]
             v == PlayerState(IF i - 1 < NumImpostors THEN "impostor" ELSE "crewmate",
                              rooms[i])
         IN  SetAll([x \in DOMAIN ps \cup {k} |-> IF x = k THEN v ELSE ps[x]],
                    shuffled, rooms, i + 1)

\* assignRoles with index <= 2 in place of index < 2
RECURSIVE SetAllOffByOne(_, _, _, _)
SetAllOffByOne(ps, shuffled, rooms, i) ==
    IF i > Len(shuffled) THEN ps
    ELSE LET k == shuffled[i]
             v == PlayerState(IF i - 1 <= NumImpostors THEN "impostor" ELSE "crewmate",
                              rooms[i])
         IN  SetAllOffByOne([x \in DOMAIN ps \cup {k} |-> IF x = k THEN v ELSE ps[x]],
                            shuffled, rooms, i + 1)

AssignRolesOffByOne(g, list, perm, rooms) ==
    LET shuffled == [i \in 1..Len(list) |-> list[perm[i]]]
    IN  [g EXCEPT !.players = SetAllOffByOne(g.players, shuffled, rooms, 1)]

\* perm is the outcome of the random sort, rooms[i] the i-th draw of
\* Math.floor(Math.random() * 6)
assignRoles(g, list, perm, rooms) ==
    LET shuffled == [i \in 1..Len(list) |-> list[perm[i]]]
    IN  [g EXCEPT !.players = SetAll(g.players, shuffled, rooms, 1)]

\* the alive keys; the random order of the array is read by nobody on the
\* host, so the array is kept as the set of its elements
shuffleActionOrder(g) == AliveKeys(g)

(* ------------------------------------------------------------------ *)
(* getPlayerView                                                      *)
(* ------------------------------------------------------------------ *)
getPlayerViewRevealing(g, publicKey) ==
    LET known == publicKey \in Keys(g)
    IN  [phase |-> g.phase,
         currentRound |-> g.currentRound,
         actionOrder |-> g.actionOrder,
         accusedPlayer |-> g.accusedPlayer,
         yourRole |-> IF known
                      THEN [type |-> g.players[publicKey].role,
                            room |-> g.players[publicKey].room]
                      ELSE [type |-> Undef, room |-> Undef],
         players |-> [k \in Keys(g) |->
                        [publicKey |-> k,
                         isAlive |-> g.players[k].isAlive,
                         room |-> g.players[k].room,
                         role |-> g.players[k].role,
                         lastAction |-> g.players[k].lastAction,
                         lastVote |-> g.players[k].lastVote]],
         winner |-> g.winner]

getPlayerView(g, publicKey) ==
    LET known == publicKey \in Keys(g)
        isImpostor == known /\ g.players[publicKey].role = "impostor"
    IN  [phase |-> g.phase,
         currentRound |-> g.currentRound,
         actionOrder |-> g.actionOrder,
         accusedPlayer |-> g.accusedPlayer,
         yourRole |-> IF known
                      THEN [type |-> g.players[publicKey].role,
                            room |-> g.players[publicKey].room]
                      ELSE [type |-> Undef, room |-> Undef],
         players |-> [k \in Keys(g) |->
                        [publicKey |-> k,
                         isAlive |-> g.players[k].isAlive,
                         room |-> g.players[k].room,
                         role |-> IF isImpostor THEN g.players[k].role ELSE Undef,
                         lastAction |-> g.players[k].lastAction,
                         lastVote |-> g.players[k].lastVote]],
         winner |-> g.winner]

(* ------------------------------------------------------------------ *)
(* makeBotDecision                                                    *)
(* ------------------------------------------------------------------ *)
Movements == <<"stay", "clockwise", "counterclockwise">>

\* the decisions makeBotDecision can return for a view, over the outcomes of
\* its Math.random() draws
makeBotDecision(view) ==
    LET isImpostor == view.yourRole.type = "impostor"
        potentialTargets ==
            {k \in DOMAIN view.players :
                /\ view.players[k].isAlive
                /\ view.players[k].room = view.yourRole.room
                /\ view.players[k].role = Undef}
    IN  CASE view.phase = "action" ->
                {Decision("pass", Undef)} \cup
                (IF isImpostor THEN {Decision("kill", t) : t \in potentialTargets} ELSE {})
          [] view.phase = "movement" ->
                {Decision(Movements[i], Undef) : i \in 1..Len(Movements)}
          [] view.phase = "voting" ->
                {Decision(Undef, view.accusedPlayer), Decision(Undef, Null)}
          [] OTHER -> {Decision("pass", Undef)}

\* a draw that leaves the first outcome of Math.random() counts as a choice
BotCost(d) ==
    IF d.type \in {"kill", "clockwise", "counterclockwise"} \/ d.target = Null
    THEN 1 ELSE 0

(* ------------------------------------------------------------------ *)
(* broadcastGameState: the bot loop and the handling of one reply     *)
(* ------------------------------------------------------------------ *)
\* Map.set on votingResults, a sequence of entries in insertion order
MapSet(vr, k, v) ==
    IF \E i \in 1..Len(vr) : vr[i].voter = k
    THEN [i \in 1..Len(vr) |-> IF vr[i].voter = k THEN [voter |-> k, target |-> v] ELSE vr[i]]
    ELSE Append(vr, [voter |-> k, target |-> v])

\* botDecision.target || 'skip', responseData.target || 'skip'
OrSkip(t) == IF t \in {Undef, Null, ""} THEN Skip ELSE t

\* this.gameState.votingResults?.set(publicKey, target || 'skip')
SetVote(g, publicKey, target) ==
    IF g.votingResults = Undef THEN g
    ELSE [g EXCEPT !.votingResults = MapSet(g.votingResults, publicKey, OrSkip(target))]

\* one iteration of the bot loop with the decision makeBotDecision returned
StoreBotDecision(g, publicKey, botDecision) ==
    CASE g.phase = "action" ->
            [g EXCEPT !.players[publicKey].lastAction = botDecision]
      [] g.phase = "movement" ->
            [g EXCEPT !.players[publicKey].lastMovement = botDecision]
      [] g.phase = "voting" ->
            SetVote([g EXCEPT !.players[publicKey].lastVote = botDecision],
                    publicKey, botDecision.target)
      [] OTHER -> g

AliveBots(g) == {k \in Keys(g) : IsBot(k) /\ g.players[k].isAlive}

\* the bot loop: draws[k] is the decision of bot k. A bot's decision reads
\* only roles, rooms, alive flags, the phase and the accused, none of which
\* the loop writes, so the order of the iterations decides nothing but the
\* insertion order of the bots' votes
RECURSIVE BotLoop(_, _, _)
BotLoop(g, todo, draws) ==
    IF todo = {} THEN g
    ELSE LET k == CHOOSE x \in todo : TRUE
         IN  BotLoop(StoreBotDecision(g, k, draws[k]), todo \ {k}, draws)

\* the draws the bot loop can make in state g
BotDraws(g) ==
    LET bots == AliveBots(g)
        options == [k \in bots |-> makeBotDecision(getPlayerView(g, k))]
    IN  {d \in [bots -> UNION {options[k] : k \in bots}] :
            \A k \in bots : d[k] \in options[k]}

RECURSIVE SumCost(_, _)
SumCost(d, todo) ==
    IF todo = {} THEN 0
    ELSE LET k == CHOOSE x \in todo : TRUE
         IN  BotCost(d[k]) + SumCost(d, todo \ {k})

\* the reply handling with the downgrade of a crewmate's kill left out
\* (a variant of HandleReply, used to test the properties that rest on it)
HandleReplyKeepKill(g, publicKey, responseData) ==
    IF publicKey \notin Keys(g) \/ ~g.players[publicKey].isAlive THEN g
    ELSE CASE g.phase = "action" ->
                IF responseData.type # Undef
                THEN [g EXCEPT !.players[publicKey].lastAction = responseData]
                ELSE g
           [] g.phase = "movement" ->
                IF responseData.type # Undef
                THEN [g EXCEPT !.players[publicKey].lastMovement = responseData]
                ELSE g
           [] g.phase = "voting" ->
                IF responseData.target # Undef
                THEN SetVote([g EXCEPT !.players[publicKey].lastVote = responseData],
                             publicKey, responseData.target)
                ELSE g
           [] OTHER -> g

\* the reply handling without the return for a participant that is not alive
HandleReplyNoAliveGuard(g, publicKey, responseData) ==
    IF publicKey \notin Keys(g) THEN g
    ELSE CASE g.phase = "action" ->
                IF responseData.type # Undef
                THEN LET validated ==
                            IF responseData.type = "kill"
                               /\ g.players[publicKey].role # "impostor"
                            THEN [responseData EXCEPT !.type = "pass"]
                            ELSE responseData
                     IN  [g EXCEPT !.players[publicKey].lastAction = validated]
                ELSE g
           [] g.phase = "movement" ->
                IF responseData.type # Undef
                THEN [g EXCEPT !.players[publicKey].lastMovement = responseData]
                ELSE g
           [] g.phase = "voting" ->
                IF responseData.target # Undef
                THEN SetVote([g EXCEPT !.players[publicKey].lastVote = responseData],
                             publicKey, responseData.target)
                ELSE g
           [] OTHER -> g

\* the body of the try block once the response is fulfilled, ok and parsed
HandleReply(g, publicKey, responseData) ==
    IF publicKey \notin Keys(g) \/ ~g.players[publicKey].isAlive THEN g
    ELSE CASE g.phase = "action" ->
                IF responseData.type # Undef
                THEN LET validated ==
                            IF responseData.type = "kill"
                               /\ g.players[publicKey].role # "impostor"
                            THEN [responseData EXCEPT !.type = "pass"]
                            ELSE responseData
                     IN  [g EXCEPT !.players[publicKey].lastAction = validated]
                ELSE g
           [] g.phase = "movement" ->
                IF responseData.type # Undef
                THEN [g EXCEPT !.players[publicKey].lastMovement = responseData]
                ELSE g
           [] g.phase = "voting" ->
                IF responseData.target # Undef
                THEN SetVote([g EXCEPT !.players[publicKey].lastVote = responseData],
                             publicKey, responseData.target)
                ELSE g
           [] OTHER -> g

(* ------------------------------------------------------------------ *)
(* checkWinCondition                                                  *)
(* ------------------------------------------------------------------ *)
\* checkWinCondition with its two tests in the other order
CheckWinCrewCountFirst(g) ==
    LET alivePlayers == AliveKeys(g)
        aliveImpostors == Cardinality({k \in alivePlayers : g.players[k].role = "impostor"})
        aliveCrew == Cardinality(alivePlayers) - aliveImpostors
    IN  IF aliveCrew = 0
        THEN [g EXCEPT !.isActive = FALSE, !.winner = "impostors"]
        ELSE IF aliveImpostors = 0
             THEN [g EXCEPT !.isActive = FALSE, !.winner = "crew"]
             ELSE g

\* checkWinCondition naming the winner without ending the session
CheckWinKeepsActive(g) ==
    LET alivePlayers == AliveKeys(g)
        aliveImpostors == Cardinality({k \in alivePlayers : g.players[k].role = "impostor"})
        aliveCrew == Cardinality(alivePlayers) - aliveImpostors
    IN  IF aliveImpostors = 0
        THEN [g EXCEPT !.winner = "crew"]
        ELSE IF aliveCrew = 0
             THEN [g EXCEPT !.isActive = FALSE, !.winner = "impostors"]
             ELSE g

checkWinCondition(g) ==
    LET alivePlayers == AliveKeys(g)
        aliveImpostors == Cardinality({k \in alivePlayers : g.players[k].role = "impostor"})
        aliveCrew == Cardinality(alivePlayers) - aliveImpostors
    IN  IF aliveImpostors = 0
        THEN [g EXCEPT !.isActive = FALSE, !.winner = "crew"]
        ELSE IF aliveCrew = 0
             THEN [g EXCEPT !.isActive = FALSE, !.winner = "impostors"]
             ELSE g

(* ------------------------------------------------------------------ *)
(* processRound: kills, movements, clearing                           *)
(* ------------------------------------------------------------------ *)
\* the kill loop's iteration with target.isAlive = !target.isAlive and no
\* test of the target's alive flag
ApplyKillToggle(g, publicKey) ==
    LET player == g.players[publicKey]
        t == player.lastAction.target
    IN  IF /\ player.lastAction.type = "kill"
           /\ t \notin {Undef, Null, ""}
           /\ t \in Keys(g)
           /\ player.role = "impostor"
           /\ g.players[t].room = player.room
        THEN [g EXCEPT !.players[t].isAlive = ~g.players[t].isAlive]
        ELSE g

\* one iteration of the kill loop, for actor publicKey
ApplyKill(g, publicKey) ==
    LET player == g.players[publicKey]
        t == player.lastAction.target
    IN  IF /\ player.lastAction.type = "kill"
           /\ t \notin {Undef, Null, ""}
           /\ t \in Keys(g)
           /\ g.players[t].isAlive
           /\ player.role = "impostor"
           /\ g.players[t].room = player.room
        THEN [g EXCEPT !.players[t].isAlive = FALSE]
        ELSE g

\* the loop over players.entries(): an iteration reads the roles, the rooms
\* and the alive flag of its target, never that of its actor, so the
\* iteration order does not change the result
RECURSIVE ProcessKills(_, _)
ProcessKills(g, todo) ==
    IF todo = {} THEN g
    ELSE LET k == CHOOSE x \in todo : TRUE
         IN  ProcessKills(ApplyKill(g, k), todo \ {k})

\* the movement with (room - 1) % 6, which JavaScript evaluates to -1 in room 0
ApplyMovementMinusOne(player) ==
    IF player.lastMovement.type = "clockwise"
    THEN [player EXCEPT !.room = (player.room + 1) % NumRooms]
    ELSE IF player.lastMovement.type = "counterclockwise"
         THEN [player EXCEPT !.room = IF player.room = 0 THEN 0 - 1 ELSE player.room - 1]
         ELSE player

\* one iteration of the movement loop
ApplyMovement(player) ==
    IF player.lastMovement.type = "clockwise"
    THEN [player EXCEPT !.room = (player.room + 1) % NumRooms]
    ELSE IF player.lastMovement.type = "counterclockwise"
         THEN [player EXCEPT !.room = (player.room + 5) % NumRooms]
         ELSE player

ProcessMovements(g) ==
    [g EXCEPT !.players = [k \in Keys(g) |-> ApplyMovement(g.players[k])]]

ClearRecords(g) ==
    [g EXCEPT !.players =
        [k \in Keys(g) |->
            [g.players[k] EXCEPT !.lastAction = NoDecision, !.lastMovement = NoDecision]]]

\* processRound up to and including checkWinCondition
ResolveRound(g) ==
    checkWinCondition(ClearRecords(ProcessMovements(ProcessKills(g, Keys(g)))))

(* ------------------------------------------------------------------ *)
(* processVotes                                                       *)
(* ------------------------------------------------------------------ *)
\* the keys of the votes Map in insertion order: 'skip', then every target
\* in the order votingResults first names it
RECURSIVE TallyKeys(_, _)
TallyKeys(vr, acc) ==
    IF vr = << >> THEN acc
    ELSE IF \E i \in 1..Len(acc) : acc[i] = Head(vr).target
         THEN TallyKeys(Tail(vr), acc)
         ELSE TallyKeys(Tail(vr), Append(acc, Head(vr).target))

CountFor(vr, t) == Cardinality({i \in 1..Len(vr) : vr[i].target = t})

\* votes.forEach: the first key whose count exceeds every count before it
RECURSIVE FindEjected(_, _, _, _, _)
FindEjected(vr, keys, i, maxVotes, ejected) ==
    IF i > Len(keys) THEN ejected
    ELSE IF CountFor(vr, keys[i]) > maxVotes
         THEN FindEjected(vr, keys, i + 1, CountFor(vr, keys[i]), keys[i])
         ELSE FindEjected(vr, keys, i + 1, maxVotes, ejected)

Ejected(g) ==
    FindEjected(g.votingResults, TallyKeys(g.votingResults, <<Skip>>), 1, 0, Null)

\* processVotes up to and including checkWinCondition
ResolveVotes(g) ==
    LET ejected == Ejected(g)
    IN  checkWinCondition(
            IF ejected # Null /\ ejected # Skip /\ ejected \in Keys(g)
            THEN [g EXCEPT !.players[ejected].isAlive = FALSE]
            ELSE g)

(* ------------------------------------------------------------------ *)
(* State                                                              *)
(* ------------------------------------------------------------------ *)
VARIABLES
    gameState,    \* this.gameState
    phaseTimer,   \* the callback of the pending phase timer, or Null
    pc,           \* where the chain of async calls stands
    cont,         \* the method whose await of broadcastGameState is pending
    subscribers,  \* what fxnClient.getSubscribers() returns
    calls,        \* the state of each call of broadcastToSubscribers
    received,     \* the action payload each participant sent this round, as sent
    choices,      \* the non-default decisions made so far
    stopped       \* FxnClientInterface.stop() has returned

vars == <<gameState, phaseTimer, pc, cont, subscribers, calls, received, choices, stopped>>

Statuses == {"active", "inactive"}
Entries(n) == {[subscriber |-> SubKey(i), status |-> s] : i \in 1..n, s \in Statuses}
\* the directories of at most n entries, the ids numbered in the order the
\* directory first names them (the i-th entry is one of the first i ids)
Directories(n) ==
    {d \in UNION {[1..l -> Entries(n)] : l \in 0..n} :
        \A i \in DOMAIN d : \E j \in 1..i : d[i].subscriber = SubKey(j)}
\* the directories of n distinct active ids
DistinctDirectory(n) == [i \in 1..n |-> [subscriber |-> SubKey(i), status |-> "active"]]

\* the values of Math.floor(Math.random() * 6)
RandomRooms == 0..(NumRooms - 1)
\* the room draws of n seats in the timer-driven specifications
StartRooms(n) == [1..n -> {r \in RandomRooms : r <= MaxStartRoom}]
\* room draws of n seats in which every seat draws every room once
DiagonalRooms(n) == {[i \in 1..n |-> (r + i) % NumRooms] : r \in RandomRooms}

\* the rotations of 1..n by at most MaxShift places
Rotations(n) == {[i \in 1..n |-> ((i - 1 + k) % n) + 1] : k \in 0..(IF MaxShift < n THEN MaxShift ELSE n - 1)}

\* the seats a reply names: the real participants and the first bots
ReplyTargets(g) ==
    LET bots == {n \in 1..MinSeats : BotKey(n) \in Keys(g)}
    IN  {k \in Keys(g) : ~IsBot(k)}
        \cup {BotKey(n) : n \in {m \in bots : Cardinality({x \in bots : x < m}) < MaxBotTargets}}

\* what a real participant can answer in the phase of g
Responses(g) ==
    CASE g.phase = "action" ->
            {Decision("pass", Undef)}
            \cup {Decision("kill", t) : t \in ReplyTargets(g)}
            \cup {Decision("accuse", t) : t \in ReplyTargets(g)}
      [] g.phase = "movement" ->
            {Decision(m, Undef) : m \in {"stay", "clockwise", "counterclockwise", "jump"}}
      [] g.phase = "voting" ->
            {Decision(Undef, t) : t \in ReplyTargets(g) \cup {Null}}
      [] OTHER -> {Decision("pass", Undef)}

\* the ways a call ends without a decision: the send is rejected, the
\* response is not ok, reading the reply throws, the reply has no type
Failures == {"rejected", "notOk", "jsonThrows", "noType"}

Init ==
    /\ gameState = initializeGameState
    /\ phaseTimer = Null
    /\ pc = "startGame"
    /\ cont = Undef
    /\ subscribers = << >>
    /\ calls = << >>
    /\ received = EmptyMap
    /\ choices = 0
    /\ stopped = FALSE

\* broadcastGameState from its call to its await of Promise.all: the sends
\* to the active subscribers and the bot loop
BeginBroadcast(g, subs, by, spent) ==
    \E draws \in BotDraws(g) :
        /\ choices + spent + SumCost(draws, DOMAIN draws) <= MaxChoices
        /\ choices' = choices + spent + SumCost(draws, DOMAIN draws)
        /\ gameState' = BotLoop(g, AliveBots(g), draws)
        /\ calls' = [i \in 1..Len(subs) |->
                        IF subs[i].status = "active" THEN "pending" ELSE "done"]
        /\ pc' = "broadcast"
        /\ cont' = by

\* startRound past its guard, up to the await of broadcastGameState
StartRound(g, subs) ==
    BeginBroadcast([g EXCEPT !.phase = "action", !.actionOrder = shuffleActionOrder(g)],
                   subs, "startRound", 0)

\* the constructor's startGame with the directory subs, the random sort
\* drawing one of perms and the room draws one of roomDraws
StartGame(subs, perms, roomDraws) ==
    /\ pc = "startGame"
    /\ LET activePlayers == PadBots(ActiveOf(subs))
       IN  \E perm \in perms :
           \E rooms \in roomDraws :
              LET g == assignRoles(gameState, activePlayers, perm, rooms)
              IN  /\ StartRound([g EXCEPT !.actionOrder = shuffleActionOrder(g)], subs)
                  /\ received' = [k \in Keys(g) |-> NoDecision]
    /\ subscribers' = subs
    /\ phaseTimer' = Null
    /\ UNCHANGED stopped

\* the failure of call i escaping the callback: Promise.all rejects and the
\* awaiting method ends before it arms its timer
ReplyFailsUncaught(i) ==
    /\ pc = "broadcast"
    /\ calls[i] \in {"pending", "overdue"}
    /\ calls' = [calls EXCEPT ![i] = "done"]
    /\ pc' = "idle"
    /\ cont' = Undef
    /\ UNCHANGED <<gameState, phaseTimer, subscribers, received, choices, stopped>>

\* the call to subscriber i ends without a usable reply
ReplyFails(i) ==
    /\ pc = "broadcast"
    /\ calls[i] \in {"pending", "overdue"}
    /\ \E f \in Failures : calls' = [calls EXCEPT ![i] = "done"]
    /\ UNCHANGED <<gameState, phaseTimer, pc, cont, subscribers, received, choices, stopped>>

\* the call to subscriber i is fulfilled and ok with responseData
Reply(i) ==
    /\ pc = "broadcast"
    /\ calls[i] \in {"pending", "overdue"}
    /\ choices < MaxChoices
    /\ \E responseData \in Responses(gameState) :
          LET publicKey == subscribers[i].subscriber
              g == HandleReply(gameState, publicKey, responseData)
          IN  /\ gameState' = g
              /\ received' =
                    IF gameState.phase = "action"
                       /\ g.players[publicKey].lastAction # gameState.players[publicKey].lastAction
                    THEN [received EXCEPT ![publicKey] = responseData]
                    ELSE received
    /\ calls' = [calls EXCEPT ![i] = "done"]
    /\ choices' = choices + 1
    /\ UNCHANGED <<phaseTimer, pc, cont, subscribers, stopped>>

\* the call to subscriber i never resolves
Hang(i) ==
    /\ pc = "broadcast"
    /\ calls[i] = "pending"
    /\ calls' = [calls EXCEPT ![i] = "hung"]
    /\ UNCHANGED <<gameState, phaseTimer, pc, cont, subscribers, received, choices, stopped>>

\* Promise.all resolves and the awaiting method arms its timer
FinishBroadcast ==
    /\ pc = "broadcast"
    /\ \A i \in DOMAIN calls : calls[i] = "done"
    /\ pc' = "idle"
    /\ phaseTimer' = CASE cont = "startRound" -> "startMovementPhase"
                       [] cont = "startMovementPhase" -> "processRound"
                       [] cont = "startVotingPhase" -> "processVotes"
                       [] OTHER -> phaseTimer
    /\ cont' = Undef
    /\ UNCHANGED <<gameState, subscribers, calls, received, choices, stopped>>

\* the action timer opening a vote on the target of a pending accusation
\* instead of the movement phase
StartMovementPhaseOrVoting ==
    /\ pc = "idle"
    /\ phaseTimer = "startMovementPhase"
    /\ LET accused == {gameState.players[k].lastAction.target :
                          k \in {a \in AliveKeys(gameState) :
                                    gameState.players[a].lastAction.type = "accuse"}}
       IN  IF accused # {}
           THEN \E accusedPlayer \in accused :
                    BeginBroadcast([gameState EXCEPT !.phase = "voting",
                                                     !.accusedPlayer = accusedPlayer,
                                                     !.votingResults = << >>],
                                   subscribers, "startVotingPhase", 0)
           ELSE BeginBroadcast([gameState EXCEPT !.phase = "movement"], subscribers,
                               "startMovementPhase", 0)
    /\ phaseTimer' = Null
    /\ UNCHANGED <<subscribers, received, stopped>>

\* the action timer fires
StartMovementPhase ==
    /\ pc = "idle"
    /\ phaseTimer = "startMovementPhase"
    /\ BeginBroadcast([gameState EXCEPT !.phase = "movement"], subscribers,
                      "startMovementPhase", 0)
    /\ phaseTimer' = Null
    /\ UNCHANGED <<subscribers, received, stopped>>

\* processRound with currentRound++ ahead of the test of isActive
RunProcessRoundCountsWin(g) ==
    LET r == ResolveRound(g)
    IN  /\ IF r.isActive
           THEN /\ g.currentRound < MaxRound
                /\ StartRound([r EXCEPT !.currentRound = r.currentRound + 1], subscribers)
           ELSE BeginBroadcast([r EXCEPT !.currentRound = r.currentRound + 1],
                               subscribers, "processRound", 0)
        /\ phaseTimer' = Null
        /\ received' = [k \in Keys(g) |-> NoDecision]
        /\ UNCHANGED <<subscribers, stopped>>

\* processRound run on g
RunProcessRound(g) ==
    LET r == ResolveRound(g)
    IN  /\ IF r.isActive
           THEN /\ g.currentRound < MaxRound
                /\ StartRound([r EXCEPT !.currentRound = r.currentRound + 1], subscribers)
           ELSE BeginBroadcast(r, subscribers, "processRound", 0)
        /\ phaseTimer' = Null
        /\ received' = [k \in Keys(g) |-> NoDecision]
        /\ UNCHANGED <<subscribers, stopped>>

\* the movement timer fires
ProcessRound ==
    /\ pc = "idle"
    /\ phaseTimer = "processRound"
    /\ RunProcessRound(gameState)

Next ==
    \/ \E subs \in Directories(MaxSubs) :
          StartGame(subs, Rotations(Len(PadBots(ActiveOf(subs)))),
                    StartRooms(Len(PadBots(ActiveOf(subs)))))
    \/ \E i \in DOMAIN calls : ReplyFails(i)
    \/ \E i \in DOMAIN calls : Reply(i)
    \/ \E i \in DOMAIN calls : Hang(i)
    \/ FinishBroadcast
    \/ StartMovementPhase
    \/ ProcessRound

Spec == Init /\ [][Next]_vars

(* ------------------------------------------------------------------ *)
(* startGame alone, over directories of every length                  *)
(* ------------------------------------------------------------------ *)
StartDirectories ==
    Directories(MaxSubs) \cup {DistinctDirectory(n) : n \in 0..MaxDirectory}

NextStart ==
    \E subs \in StartDirectories :
        StartGame(subs, Permutations(1..Len(PadBots(ActiveOf(subs)))),
                  DiagonalRooms(Len(PadBots(ActiveOf(subs)))))

StartSpec == Init /\ [][NextStart]_vars

(* ------------------------------------------------------------------ *)
(* The voting branch: startVotingPhase is called by nothing in the    *)
(* class, so it is entered here in place of the movement phase        *)
(* ------------------------------------------------------------------ *)
\* startVotingPhase(accusedPlayer) run when the action timer fires; the
\* accusation that leads to it counts as a choice
StartVotingPhase(accusedPlayer) ==
    /\ pc = "idle"
    /\ phaseTimer = "startMovementPhase"
    /\ BeginBroadcast([gameState EXCEPT !.phase = "voting",
                                        !.accusedPlayer = accusedPlayer,
                                        !.votingResults = << >>],
                      subscribers, "startVotingPhase", 1)
    /\ phaseTimer' = Null
    /\ UNCHANGED <<subscribers, received, stopped>>

\* the voting timer fires
ProcessVotes ==
    /\ pc = "idle"
    /\ phaseTimer = "processVotes"
    /\ IF gameState.votingResults = Undef \/ gameState.accusedPlayer = Undef
       THEN UNCHANGED <<gameState, pc, cont, calls, choices>>
       ELSE LET r == ResolveVotes(gameState)
            IN  IF r.isActive
                THEN StartRound(r, subscribers)
                ELSE /\ gameState' = r
                     /\ UNCHANGED <<pc, cont, calls, choices>>
    /\ phaseTimer' = Null
    /\ UNCHANGED <<subscribers, received, stopped>>

\* the directory of the voting specification: five real participants and a bot
VoteDirectory == DistinctDirectory(MinSeats - 1)

NextVote ==
    \/ StartGame(VoteDirectory, Rotations(MinSeats), StartRooms(MinSeats))
    \/ \E i \in DOMAIN calls : ReplyFails(i)
    \/ \E i \in DOMAIN calls : Reply(i)
    \/ FinishBroadcast
    \/ \E accusedPlayer \in Keys(gameState) : StartVotingPhase(accusedPlayer)
    \/ ProcessVotes

VoteSpec == Init /\ [][NextVote]_vars

(* ------------------------------------------------------------------ *)
(* checkWinCondition alone, over every combination of alive flags     *)
(* ------------------------------------------------------------------ *)
InitWin ==
    /\ \E perm \in Permutations(1..MinSeats) :
       \E alive \in [BotKeys -> BOOLEAN] :
          LET g == assignRoles(initializeGameState, PadBots(<< >>), perm,
                               [i \in 1..MinSeats |-> 0])
          IN  gameState =
                [g EXCEPT !.players =
                    [k \in Keys(g) |-> [g.players[k] EXCEPT !.isAlive = alive[k]]],
                          !.phase = "movement"]
    /\ phaseTimer = Null
    /\ pc = "checkWinCondition"
    /\ cont = "processRound"
    /\ subscribers = << >>
    /\ calls = << >>
    /\ received = EmptyMap
    /\ choices = 0
    /\ stopped = FALSE

CheckWin ==
    /\ pc = "checkWinCondition"
    /\ gameState' = checkWinCondition(gameState)
    /\ pc' = "checked"
    /\ UNCHANGED <<phaseTimer, cont, subscribers, calls, received, choices, stopped>>

WinSpec == InitWin /\ [][CheckWin]_vars

(* ------------------------------------------------------------------ *)
(* processRound invoked again after the session ended                 *)
(* ------------------------------------------------------------------ *)
ProcessRoundAgain ==
    /\ pc = "idle"
    /\ phaseTimer = Null
    /\ ~gameState.isActive
    /\ gameState.winner # Undef
    /\ RunProcessRound(gameState)

NextAgain == Next \/ ProcessRoundAgain

AgainSpec == Init /\ [][NextAgain]_vars

(* ------------------------------------------------------------------ *)
(* FxnClientInterface.stop() called at any moment                     *)
(* ------------------------------------------------------------------ *)
\* stop(): console.log('Stopping client') and nothing else
Stop ==
    /\ ~stopped
    /\ stopped' = TRUE
    /\ UNCHANGED <<gameState, phaseTimer, pc, cont, subscribers, calls, received, choices>>

NextStop == Next \/ Stop

StopSpec == Init /\ [][NextStop]_vars

(* ------------------------------------------------------------------ *)
(* The duration of the phase elapsing while calls are unresolved      *)
(* ------------------------------------------------------------------ *)
\* ACTION_DURATION (MOVEMENT_DURATION, VOTING_DURATION) passes, measured from
\* the broadcast: every call still pending is past the phase's deadline
Expire ==
    /\ pc = "broadcast"
    /\ \E i \in DOMAIN calls : calls[i] = "pending"
    /\ calls' = [i \in DOMAIN calls |-> IF calls[i] = "pending" THEN "overdue" ELSE calls[i]]
    /\ UNCHANGED <<gameState, phaseTimer, pc, cont, subscribers, received, choices, stopped>>

NextLate == Next \/ Expire

LateSpec == Init /\ [][NextLate]_vars

(* ------------------------------------------------------------------ *)
(* The kill step of processRound alone, over batches of decisions     *)
(* ------------------------------------------------------------------ *)
\* the seats whose alive flag, room and decision vary
KillSeats == {SubKey(n) : n \in 1..MaxKillSeats}
KillDecisions ==
    {NoDecision, Decision("pass", Undef)} \cup {Decision("kill", t) : t \in KillSeats}
\* room draws: the varying seats in rooms 0..MaxKillRoom, the others in room 0
KillRooms ==
    {r \in [1..MinSeats -> 0..MaxKillRoom] : \A i \in (MaxKillSeats + 1)..MinSeats : r[i] = 0}

InitKill ==
    /\ \E perm \in Rotations(MinSeats) :
       \E rooms \in KillRooms :
       \E alive \in [KillSeats -> BOOLEAN] :
       \E batch \in [KillSeats -> KillDecisions] :
          LET g == assignRoles(initializeGameState, ActiveOf(DistinctDirectory(MinSeats)),
                               perm, rooms)
          IN  gameState =
                [g EXCEPT !.players =
                    [k \in Keys(g) |->
                        IF k \in KillSeats
                        THEN [g.players[k] EXCEPT !.isAlive = alive[k],
                                                  !.lastAction = batch[k]]
                        ELSE g.players[k]]]
    /\ phaseTimer = Null
    /\ pc = "kills"
    /\ cont = "processRound"
    /\ subscribers = DistinctDirectory(MinSeats)
    /\ calls = << >>
    /\ received = EmptyMap
    /\ choices = 0
    /\ stopped = FALSE

\* the kill loop of processRound
KillStep ==
    /\ pc = "kills"
    /\ gameState' = ProcessKills(gameState, Keys(gameState))
    /\ pc' = "killedOnce"
    /\ UNCHANGED <<phaseTimer, cont, subscribers, calls, received, choices, stopped>>

\* the kill loop run a second time on the same batch
KillStepAgain ==
    /\ pc = "killedOnce"
    /\ gameState' = ProcessKills(gameState, Keys(gameState))
    /\ pc' = "killedTwice"
    /\ UNCHANGED <<phaseTimer, cont, subscribers, calls, received, choices, stopped>>

NextKill == KillStep \/ KillStepAgain

KillSpec == InitKill /\ [][NextKill]_vars

(* ------------------------------------------------------------------ *)
(* The movement step of processRound alone, round after round         *)
(* ------------------------------------------------------------------ *)
MoveSeats == {SubKey(n) : n \in 1..MaxMoveSeats}
\* what a movement slot can hold: nothing, or a reply with any type
MovementDecisions ==
    {NoDecision} \cup {Decision(m, Undef) : m \in {"stay", "clockwise", "counterclockwise", "jump"}}

InitMove ==
    /\ \E rooms \in DiagonalRooms(MinSeats) :
          gameState = [assignRoles(initializeGameState, ActiveOf(DistinctDirectory(MinSeats)),
                                   [i \in 1..MinSeats |-> i], rooms)
                        EXCEPT !.phase = "movement"]
    /\ phaseTimer = Null
    /\ pc = "collect"
    /\ cont = "startMovementPhase"
    /\ subscribers = DistinctDirectory(MinSeats)
    /\ calls = << >>
    /\ received = EmptyMap
    /\ choices = 0
    /\ stopped = FALSE

\* the replies of the movement broadcast: each varying seat's slot is written
CollectMovements ==
    /\ pc = "collect"
    /\ \E batch \in [MoveSeats -> MovementDecisions] :
          gameState' =
            [gameState EXCEPT !.players =
                [k \in Keys(gameState) |->
                    IF k \in MoveSeats /\ batch[k] # NoDecision
                    THEN HandleReply(gameState, k, batch[k]).players[k]
                    ELSE gameState.players[k]]]
    /\ pc' = "movements"
    /\ UNCHANGED <<phaseTimer, cont, subscribers, calls, received, choices, stopped>>

\* the movement loop of processRound
MovementStep ==
    /\ pc = "movements"
    /\ gameState' = ProcessMovements(gameState)
    /\ pc' = "clear"
    /\ UNCHANGED <<phaseTimer, cont, subscribers, calls, received, choices, stopped>>

\* the clearing loop of processRound, after which the next round collects
ClearStep ==
    /\ pc = "clear"
    /\ gameState' = ClearRecords(gameState)
    /\ pc' = "collect"
    /\ UNCHANGED <<phaseTimer, cont, subscribers, calls, received, choices, stopped>>

NextMove == CollectMovements \/ MovementStep \/ ClearStep

MoveSpec == InitMove /\ [][NextMove]_vars

(* ------------------------------------------------------------------ *)
(* Properties                                                         *)
(* ------------------------------------------------------------------ *)
Started == pc # "startGame"
Role(k) == gameState.players[k].role
Alive(k) == gameState.players[k].isAlive
Room(k) == gameState.players[k].room
Won == ~gameState.isActive /\ gameState.winner # Undef

\* C1: a broadcast in which the call to one real participant never resolves
\* does not stop the game: while the session is active and waits on such a
\* call, a step of the phase chain is still possible.
C1_ProgressUnderSilence ==
    (/\ pc = "broadcast"
     /\ gameState.isActive
     /\ \E i \in DOMAIN calls : calls[i] = "hung")
    => ENABLED Next

\* C2: processRound's kill step sets isAlive to false only for the target of
\* a pending kill whose actor is an impostor, the target being alive, in the
\* actor's room, not an impostor and not the actor.
C2_KillOnlyLegalTarget ==
    [][(pc = "idle" /\ phaseTimer = "processRound") =>
        \A t \in Keys(gameState) :
            (Alive(t) /\ ~gameState'.players[t].isAlive) =>
                \E a \in Keys(gameState) :
                    /\ gameState.players[a].lastAction = Decision("kill", t)
                    /\ Role(a) = "impostor"
                    /\ Room(a) = Room(t)
                    /\ Role(t) # "impostor"
                    /\ a # t]_vars

\* the counts processVotes tallies: one per key, the abstain key included
TallyOf(vr, key) == Cardinality({i \in 1..Len(vr) : vr[i].target = key})
TallyKeySet(vr) == {Skip} \cup {vr[i].target : i \in 1..Len(vr)}
MaxTally(vr) ==
    CHOOSE n \in 0..Len(vr) :
        /\ \E key \in TallyKeySet(vr) : TallyOf(vr, key) = n
        /\ \A key \in TallyKeySet(vr) : TallyOf(vr, key) <= n
TieAtMax(vr) ==
    Cardinality({key \in TallyKeySet(vr) : TallyOf(vr, key) = MaxTally(vr)}) >= 2

\* C3: when processVotes tallies and two or more keys share the greatest
\* count, no alive flag changes; a participant is ejected only when it alone
\* holds the strictly greatest count and is not the abstain key.
C3_TieMeansNoEjection ==
    [][(pc = "idle" /\ phaseTimer = "processVotes" /\ gameState.votingResults # Undef) =>
        LET vr == gameState.votingResults
        IN  /\ TieAtMax(vr) =>
                \A k \in Keys(gameState) : gameState'.players[k].isAlive = Alive(k)
            /\ \A k \in Keys(gameState) :
                (Alive(k) /\ ~gameState'.players[k].isAlive) =>
                    /\ k # Skip
                    /\ \A key \in TallyKeySet(vr) \ {k} : TallyOf(vr, key) < TallyOf(vr, k)]_vars

\* C4: checkWinCondition ends the session for the crew iff no impostor is
\* alive (also when nobody is), for the impostors iff no crewmate is alive
\* while an impostor is, and otherwise leaves it active with no winner.
C4_WinCondition ==
    pc = "checked" =>
        LET impostorAlive == \E k \in Keys(gameState) : Alive(k) /\ Role(k) = "impostor"
            crewAlive == \E k \in Keys(gameState) : Alive(k) /\ Role(k) = "crewmate"
        IN  /\ (gameState.winner = "crew" /\ ~gameState.isActive) <=> ~impostorAlive
            /\ (gameState.winner = "impostors" /\ ~gameState.isActive)
                    <=> (~crewAlive /\ impostorAlive)
            /\ (impostorAlive /\ crewAlive) =>
                    (gameState.isActive /\ gameState.winner = Undef)

C4_Witness ==
    /\ pc = "checked"
    /\ AliveKeys(gameState) = {}
    /\ gameState.winner = "crew"
    /\ ~gameState.isActive

\* C5: once a win has ended the session, processRound invoked again changes
\* neither the phase, the round, the winner nor any alive flag or room, and
\* arms no timer.
C5_NothingChangesAfterWin ==
    [][(pc = "idle" /\ Won) =>
        /\ gameState'.phase = gameState.phase
        /\ gameState'.currentRound = gameState.currentRound
        /\ gameState'.winner = gameState.winner
        /\ \A k \in Keys(gameState) :
              /\ gameState'.players[k].isAlive = Alive(k)
              /\ gameState'.players[k].room = Room(k)
        /\ phaseTimer' = Null]_vars

\* C6: the phase starts at action, action is followed only by movement,
\* movement (or voting) by action when there is no winner and by complete
\* when there is one, so a session ended by a win is in phase complete.
C6_PhaseTable ==
    /\ gameState.phase = "action"
    /\ [][/\ (gameState.phase = "action" /\ gameState'.phase # "action")
                => gameState'.phase = "movement"
          /\ (gameState.phase \in {"movement", "voting"}
              /\ gameState'.phase # gameState.phase)
                => gameState'.phase \in {"action", "complete"}
          /\ (~gameState'.isActive /\ gameState'.winner # Undef)
                => gameState'.phase = "complete"]_vars

\* no id is named twice among the active entries of the directory
DistinctActive(subs) ==
    \A i, j \in 1..Len(ActiveOf(subs)) : ActiveOf(subs)[i] = ActiveOf(subs)[j] => i = j
ActiveIds(subs) == {ActiveOf(subs)[i] : i \in 1..Len(ActiveOf(subs))}
FirstAction == Started /\ gameState.currentRound = 1 /\ gameState.phase = "action"

\* C7: after startGame on a directory of distinct active ids of any length
\* (padded with bots up to 6 seats), exactly 2 participants are impostors,
\* all others crewmates, every participant is alive and in a room of 0..5.
C7_RoleAssignment ==
    (FirstAction /\ DistinctActive(subscribers)) =>
        /\ Cardinality(Impostors(gameState)) = 2
        /\ \A k \in Keys(gameState) \ Impostors(gameState) : Role(k) = "crewmate"
        /\ \A k \in Keys(gameState) : Alive(k) /\ Room(k) \in 0..5
        /\ ActiveIds(subscribers) \subseteq Keys(gameState)
        /\ Cardinality(Keys(gameState)) =
              (IF Len(ActiveOf(subscribers)) < 6 THEN 6 ELSE Len(ActiveOf(subscribers)))

C7_Witness ==
    /\ FirstAction
    /\ DistinctActive(subscribers)
    /\ Len(subscribers) = 7
    /\ Cardinality(Keys(gameState)) = 7
    /\ Cardinality(Impostors(gameState)) = 2
    /\ \E k \in Keys(gameState) : Room(k) = 5

\* C8: when the directory names an active id more than once, the started
\* session still has one seat per distinct id, at least 6 seats and exactly
\* 2 impostors.
C8_DirectoryDeduplicated ==
    (FirstAction /\ ~DistinctActive(subscribers)) =>
        /\ ActiveIds(subscribers) \subseteq Keys(gameState)
        /\ Cardinality(Keys(gameState)) >= 6
        /\ Cardinality(Impostors(gameState)) = 2

\* an id that holds no seat
Stranger == "stranger"

\* C9: in every view of getPlayerView the role of a listed participant is
\* defined only if the viewer is an impostor; a crewmate, or an id that is
\* not in the game, sees no role at all.
C9_RoleOnlyForImpostors ==
    \A viewer \in Keys(gameState) \cup {Stranger} :
        LET view == getPlayerView(gameState, viewer)
            viewerIsImpostor == viewer \in Keys(gameState) /\ Role(viewer) = "impostor"
        IN  \A k \in DOMAIN view.players :
                /\ view.players[k].role # Undef => viewerIsImpostor
                /\ ~viewerIsImpostor => view.players[k].role = Undef

C9_Witness ==
    /\ Started
    /\ \E viewer \in Keys(gameState) :
          /\ Role(viewer) = "crewmate"
          /\ \A k \in Keys(gameState) : getPlayerView(gameState, viewer).players[k].role = Undef
    /\ \E viewer \in Keys(gameState) :
          /\ Role(viewer) = "impostor"
          /\ \E k \in Keys(gameState) :
                getPlayerView(gameState, viewer).players[k].role = "crewmate"

\* the state of the run that differs from g in the roles of x and y only:
\* the roles are exchanged and the action slots are collected again from the
\* payloads the participants sent
ExchangeRoles(g, x, y) ==
    LET swapped == [g EXCEPT !.players[x].role = g.players[y].role,
                             !.players[y].role = g.players[x].role]
        collected(k) ==
            IF received[k] = NoDecision THEN swapped.players[k].lastAction
            ELSE HandleReply([swapped EXCEPT !.phase = "action"], k, received[k])
                    .players[k].lastAction
    IN  [swapped EXCEPT !.players =
            [k \in Keys(g) |-> [swapped.players[k] EXCEPT !.lastAction = collected(k)]]]

\* C10: the view sent to a crewmate at the start of the movement phase is
\* the same in two runs that agree on ids, rooms, alive flags and the
\* payloads sent in the round and differ only in the roles of participants
\* other than the viewer.
C10_ViewHidesRoles ==
    (pc = "broadcast" /\ cont = "startMovementPhase" /\ gameState.currentRound = 1) =>
        \A viewer \in Keys(gameState) :
            Role(viewer) = "crewmate" =>
                \A x, y \in Keys(gameState) \ {viewer} :
                    getPlayerView(ExchangeRoles(gameState, x, y), viewer)
                        = getPlayerView(gameState, viewer)

\* C11: the step in which stop() returns cancels the pending phase timer and
\* marks the session inactive, leaving the winner as it was; after it the
\* phase and the round never change and no resolver step changes a
\* participant.
C11_StopEndsSession ==
    /\ [][(~stopped /\ stopped') =>
            /\ phaseTimer' = Null
            /\ ~gameState'.isActive
            /\ gameState'.winner = gameState.winner]_vars
    /\ [][stopped =>
            /\ gameState'.phase = gameState.phase
            /\ gameState'.currentRound = gameState.currentRound
            /\ \A k \in Keys(gameState) :
                  /\ gameState'.players[k].isAlive = Alive(k)
                  /\ gameState'.players[k].room = Room(k)]_vars

\* the slots of the decisions of participant k
Slots(g, k) == <<g.players[k].lastAction, g.players[k].lastMovement, g.players[k].lastVote>>

\* C12: a reply that arrives after the phase's duration has elapsed since
\* the broadcast is not written: the step that ends an overdue call leaves
\* the three slots of its participant as they were.
C12_LateReplyExcluded ==
    [][\A i \in DOMAIN calls :
          (pc = "broadcast" /\ calls[i] = "overdue" /\ calls'[i] = "done"
           /\ subscribers[i].subscriber \in Keys(gameState)) =>
              Slots(gameState', subscribers[i].subscriber)
                  = Slots(gameState, subscribers[i].subscriber)]_vars

\* C13: the kill step applied a second time to the same batch of decisions
\* changes no alive flag.
C13_KillStepIdempotent ==
    [][pc = "killedOnce" =>
          \A k \in Keys(gameState) : gameState'.players[k].isAlive = Alive(k)]_vars

C13_Witness ==
    /\ pc = "killedTwice"
    /\ \E a, b \in KillSeats :
          /\ a # b
          /\ gameState.players[a].lastAction = Decision("kill", b)
          /\ gameState.players[b].lastAction = Decision("kill", a)
          /\ Role(a) = "impostor"
          /\ Role(b) = "crewmate"
          /\ Room(a) = Room(b)
          /\ Alive(a)
          /\ ~Alive(b)
    /\ \E c \in KillSeats : Alive(c) /\ Role(c) = "crewmate"

\* the room one place back on the ring
RoomBefore(r) == IF r = 0 THEN NumRooms - 1 ELSE r - 1

\* C14: every room is always in 0..5, and the movement step takes a
\* participant with 'clockwise' to (room + 1) mod 6, one with
\* 'counterclockwise' to (room - 1) mod 6 and leaves every other one ('stay',
\* no movement, an unrecognised type) where it was.
C14_MovementOnRing ==
    /\ [](\A k \in Keys(gameState) : Room(k) \in 0..5)
    /\ [][pc = "movements" =>
            \A k \in Keys(gameState) :
                gameState'.players[k].room =
                    CASE gameState.players[k].lastMovement.type = "clockwise" ->
                            IF Room(k) = 5 THEN 0 ELSE Room(k) + 1
                      [] gameState.players[k].lastMovement.type = "counterclockwise" ->
                            RoomBefore(Room(k))
                      [] OTHER -> Room(k)]_vars

C14_Witness ==
    /\ pc = "clear"
    /\ \E a, b \in MoveSeats :
          /\ gameState.players[a].lastMovement.type = "counterclockwise"
          /\ Room(a) = 5
          /\ gameState.players[b].lastMovement.type = "clockwise"
          /\ Room(b) = 0

\* C15: processRound leaves the room of every participant that is not
\* alive once its kill step is done, the participants that this kill step
\* eliminates included.
C15_DeadNeverMoves ==
    [][(pc = "idle" /\ phaseTimer = "processRound") =>
          \A k \in Keys(gameState) :
              ~ProcessKills(gameState, Keys(gameState)).players[k].isAlive =>
                  gameState'.players[k].room = Room(k)]_vars

\* C16: outside the voting phase no participant is accused and
\* votingResults is unset or empty.
C16_VotingStateOnlyInVoting ==
    gameState.phase # "voting" =>
        /\ gameState.accusedPlayer = Undef
        /\ gameState.votingResults \in {Undef, << >>}

\* C17: processRound leaves lastMovement and lastVote of every participant
\* empty, and lastAction empty wherever the next broadcast has not written
\* it again; processVotes leaves lastVote of every participant empty.
C17_SlotsCleared ==
    /\ [][(pc = "idle" /\ phaseTimer = "processRound" /\ gameState'.phase = "action") =>
            \A k \in Keys(gameState) :
                /\ gameState'.players[k].lastMovement = NoDecision
                /\ gameState'.players[k].lastVote = NoDecision
                /\ k \notin AliveBots(gameState') => gameState'.players[k].lastAction = NoDecision]_vars
    /\ [][(pc = "idle" /\ phaseTimer = "processVotes") =>
            \A k \in Keys(gameState) : gameState'.players[k].lastVote = NoDecision]_vars

\* C18: the winner is defined exactly when the session is inactive, and once
\* it is defined no step, a repeated processRound included, changes it or
\* makes the session active again.
C18_WinnerSetOnce ==
    /\ []((gameState.winner # Undef) <=> ~gameState.isActive)
    /\ [][gameState.winner # Undef =>
            /\ gameState'.winner = gameState.winner
            /\ ~gameState'.isActive]_vars

C18_Witness ==
    /\ Won
    /\ pc = "idle"
    /\ phaseTimer = Null
    /\ gameState.winner = "crew"
    /\ \E k \in Keys(gameState) : Alive(k)

\* the targets votingResults holds for voter k
VotesOf(g, k) ==
    IF g.votingResults = Undef THEN {}
    ELSE {g.votingResults[i].target :
            i \in {j \in 1..Len(g.votingResults) : g.votingResults[j].voter = k}}

\* C19: a participant that is not alive stays so, no step writes a decision
\* into one of its slots or a vote of it into votingResults (a slot may be
\* cleared), and it is listed in every view.
C19_DeadStaysDead ==
    /\ [][\A k \in Keys(gameState) :
            ~Alive(k) =>
                /\ ~gameState'.players[k].isAlive
                /\ \A n \in 1..3 :
                      Slots(gameState', k)[n] \in {Slots(gameState, k)[n], NoDecision}
                /\ VotesOf(gameState', k) \subseteq VotesOf(gameState, k)]_vars
    /\ [](\A viewer \in Keys(gameState) \cup {Stranger} :
            \A k \in Keys(gameState) :
                /\ k \in DOMAIN getPlayerView(gameState, viewer).players
                /\ getPlayerView(gameState, viewer).players[k].isAlive = Alive(k))

C19_Witness ==
    /\ pc = "broadcast"
    /\ gameState.currentRound = 2
    /\ gameState.phase = "action"
    /\ choices = MaxChoices
    /\ \E i \in DOMAIN calls :
          /\ calls[i] = "done"
          /\ subscribers[i].status = "active"
          /\ ~Alive(subscribers[i].subscriber)
          /\ Slots(gameState, subscribers[i].subscriber) = <<NoDecision, NoDecision, NoDecision>>
          /\ subscribers[i].subscriber \in DOMAIN getPlayerView(gameState, Stranger).players
    /\ \A k \in Keys(gameState) : Room(k) = 0

\* C20: the step in which the call to one participant fails changes nothing
\* of the game state and leaves every other call as it was, so the other
\* decisions stay recorded and the failing slot stays empty; and the phase
\* goes on: an active session that is between broadcasts has its timer armed.
C20_FailureIsolated ==
    /\ [][\A i \in DOMAIN calls :
            (pc = "broadcast" /\ calls[i] \in {"pending", "overdue"}
             /\ calls'[i] = "done" /\ choices' = choices) =>
                /\ gameState' = gameState
                /\ pc' = "broadcast"
                /\ \A j \in DOMAIN calls \ {i} : calls'[j] = calls[j]]_vars
    /\ []((pc = "idle" /\ Started /\ gameState.isActive) => phaseTimer # Null)

C20_Witness ==
    /\ pc = "idle"
    /\ phaseTimer = "processRound"
    /\ gameState.phase = "movement"
    /\ \E a, b \in Keys(gameState) :
          /\ ~IsBot(a) /\ ~IsBot(b)
          /\ Alive(a) /\ Alive(b)
          /\ gameState.players[a].lastAction = NoDecision
          /\ gameState.players[b].lastAction # NoDecision

\* C21: currentRound starts at 1 and a step changes it only when
\* processRound resolves a movement phase and finds no winner, and then by
\* exactly one.
C21_RoundCounter ==
    /\ gameState.currentRound = 1
    /\ [][gameState'.currentRound =
            IF pc = "idle" /\ phaseTimer = "processRound" /\ gameState'.isActive
            THEN gameState.currentRound + 1
            ELSE gameState.currentRound]_vars

C21_Witness ==
    /\ gameState.currentRound = 2
    /\ gameState.phase = "movement"
    /\ pc = "idle"
    /\ phaseTimer = "processRound"

\* C22: in the chain the constructor starts the phase is never 'voting',
\* nobody is accused, no votes are held, startVotingPhase and processVotes
\* are never pending, and a participant stops being alive only by a kill
\* that processRound resolves.
C22_VotingUnreachable ==
    /\ [](/\ gameState.phase # "voting"
          /\ gameState.accusedPlayer = Undef
          /\ gameState.votingResults = Undef
          /\ phaseTimer # "processVotes"
          /\ cont # "startVotingPhase")
    /\ [][\A k \in Keys(gameState) :
            (Alive(k) /\ ~gameState'.players[k].isAlive) =>
                /\ pc = "idle"
                /\ phaseTimer = "processRound"
                /\ \E a \in Keys(gameState) :
                      gameState.players[a].lastAction = Decision("kill", k)]_vars

C22_Witness ==
    /\ pc = "idle"
    /\ phaseTimer = "processRound"
    /\ gameState.phase = "movement"
    /\ \E a, t \in Keys(gameState) :
          /\ a # t
          /\ Alive(a) /\ Alive(t)
          /\ gameState.players[a].lastAction = Decision("accuse", t)

\* the alive crewmates in the room of participant b
CrewInRoomOf(g, b) ==
    {c \in AliveKeys(g) : g.players[c].role = "crewmate" /\ g.players[c].room = g.players[b].room}

\* C23: in the action phase an alive impostor bot that shares its room with
\* an alive crewmate has, among the decisions makeBotDecision can return for
\* its view, a kill of one of those crewmates.
C23_BotKillPolicyLive ==
    (Started /\ gameState.phase = "action") =>
        \A b \in AliveBots(gameState) :
            (Role(b) = "impostor" /\ CrewInRoomOf(gameState, b) # {}) =>
                \E d \in makeBotDecision(getPlayerView(gameState, b)) :
                    d.type = "kill" /\ d.target \in CrewInRoomOf(gameState, b)

====
